---- MODULE Spec2Model ----
(***************************************************************************)
(* Model of serialization/serializable.py: the three process-wide          *)
(* registries (Serializable.serializable_types, Serializer.serializers,    *)
(* Deserializer.deserializers), serialize()/Serializable.serialize_object  *)
(* and deserialize()/deserialize_dict()/deserialize_list().                *)
(*                                                                         *)
(* Python values are records tagged by kind:                               *)
(*   "s"  str / number scalar          [k, v]                              *)
(*   "l"  list                         [k, es]                             *)
(*   "d"  dict with str keys           [k, m]                              *)
(*   "o"  instance that has a __dict__ [k, t, a]                           *)
(*   "n"  instance without a __dict__  [k, t, v]   (datetime, set, ...)    *)
(* Object graphs are trees (acyclic, unshared), so an object mutated in    *)
(* place is modelled by the value it has after the call ("post").          *)
(* dict iteration order (insertion order in Python) is taken to be the     *)
(* fixed order KeyOrder; it only decides which siblings have already been  *)
(* visited when a call fails half way.                                     *)
(***************************************************************************)
EXTENDS Integers, Sequences, FiniteSets, TLC

VARIABLES serializable_types, serializers, deserializers, obj, rep, call

vars == <<serializable_types, serializers, deserializers, obj, rep, call>>

\* Nesting depth of the objects and representations handed to the engine.
MaxDepth == 2

-----------------------------------------------------------------------------
(* Values *)

Sc(s) == [k |-> "s", v |-> s]
Li(es) == [k |-> "l", es |-> es]
Di(m) == [k |-> "d", m |-> m]
Ob(t, a) == [k |-> "o", t |-> t, a |-> a]
Op(t, v) == [k |-> "n", t |-> t, v |-> v]
NoValue == [k |-> "none"]

EmptyMap == [key \in {} |-> NoValue]
Restrict(m, S) == [key \in S |-> m[key]]
Put(m, key, val) == [x \in DOMAIN m \cup {key} |-> IF x = key THEN val ELSE m[x]]

Tag == "_serialized_type"

KeyOrder == <<"x", "t", "_p", "k", "datetime", Tag>>
Keys(m) == SelectSeq(KeyOrder, LAMBDA key : key \in DOMAIN m)
Index(ks, key) == CHOOSE i \in 1..Len(ks) : ks[i] = key

\* key.startswith('_') over the key alphabet of the model
StartsWithUnderscore(key) == key \in {"_p", Tag}

-----------------------------------------------------------------------------
(* Types: o.__module__, o.__name__ and fullname(o) *)

DictTypes == {"Point", "Blob"}
Types == DictTypes \cup {"datetime", "set"}

ModuleOf == [o \in Types |->
               CASE o = "Point" -> "app"
                 [] o = "datetime" -> "datetime"
                 [] OTHER -> "builtins"]
Name(o) == o
Qualified == [o \in Types |->
               CASE o = "Point" -> "app.Point"
                 [] o = "datetime" -> "datetime.datetime"
                 [] OTHER -> o]

fullname(o) == IF ModuleOf[o] = "builtins" THEN Name(o) ELSE Qualified[o]

\* Names accepted by cls.__init__ (inspect.signature): Point(x) stores x;
\* Blob inherits Serializable.__init__(self, **kwargs), which names no field.
CtorParams == [o \in DictTypes |-> IF o = "Point" THEN {"x"} ELSE {}]

-----------------------------------------------------------------------------
(* Codec functions *)

DatetimeStr == [d \in {"d1"} |-> "2023-01-01 00:00:00"]
IsoStrings == {DatetimeStr[d] : d \in DOMAIN DatetimeStr}
FromIso(s) == CHOOSE d \in DOMAIN DatetimeStr : DatetimeStr[d] = s

\* o.__str__()
StrOf(o) == IF o.k = "n" /\ o.t = "datetime" THEN Sc(DatetimeStr[o.v]) ELSE Sc("<object>")

EncoderFns == {"serialize_datetime"}
ApplyEncoder(fn, o) == "datetime" :> StrOf(o)

\* "copy_mapping" is a caller-supplied decoder, lambda raw: dict(raw)
DecoderFns == {"deserialize_datetime", "copy_mapping"}
ApplyDecoder(fn, m) ==
    IF fn = "deserialize_datetime"
    THEN IF "datetime" \notin DOMAIN m
         THEN [ok |-> FALSE, val |-> NoValue]
         ELSE IF m["datetime"].k = "s" /\ m["datetime"].v \in IsoStrings
              THEN [ok |-> TRUE, val |-> Op("datetime", FromIso(m["datetime"].v))]
              ELSE [ok |-> FALSE, val |-> NoValue]
    ELSE [ok |-> TRUE, val |-> Di(m)]

-----------------------------------------------------------------------------
(* Serializable.serialize_object and serialize *)

\* the descriptor consulted before the encoder registry
HasEncoderAfterDescriptor(typ) ==
    typ \in DOMAIN serializers /\ fullname(typ) \notin DOMAIN serializable_types

HasEncoder(typ) == typ \in DOMAIN serializers

TypeRegistered(type_name) == type_name \in DOMAIN serializable_types

\* the flag ignored: private attributes always left out
PrivateKeysAlways(a, priv) == {key \in DOMAIN a : StartsWithUnderscore(key)}

PrivateKeys(a, priv) ==
    IF ~priv THEN {key \in DOMAIN a : StartsWithUnderscore(key)} ELSE {}

\* the transient pass left out
TransientKeysNone(a, transient) == {}

TransientKeys(a, transient) ==
    IF transient # {} THEN {key \in DOMAIN a : key \in transient} ELSE {}

\* lines 45-67: delete the ignored attributes, set the tag attribute, copy
\* __dict__ into the result, set the ignored attributes again
SerializeFields(o, priv) ==
    LET type_data == serializable_types[fullname(o.t)]
        rem1 == PrivateKeys(o.a, priv)
        a1 == Restrict(o.a, DOMAIN o.a \ rem1)
        rem2 == TransientKeys(a1, type_data.transient_attributes)
        a2 == Restrict(a1, DOMAIN a1 \ rem2)
        ignored_attributes == Restrict(o.a, rem1 \cup rem2)
        a3 == Put(a2, Tag, Sc(fullname(o.t)))
        a4 == [key \in DOMAIN a3 \cup DOMAIN ignored_attributes |->
                 IF key \in DOMAIN ignored_attributes
                 THEN ignored_attributes[key] ELSE a3[key]]
    IN [ok |-> TRUE, value |-> a3, post |-> Ob(o.t, a4), alias |-> TRUE]

serialize_object(o, priv) ==
    IF HasEncoder(o.t)
    THEN [ok |-> TRUE,
          value |-> Put(ApplyEncoder(serializers[o.t], o), Tag, Sc(Name(o.t))),
          post |-> o, alias |-> FALSE]
    ELSE IF o.k = "o"
         THEN IF ~TypeRegistered(fullname(o.t))
              THEN [ok |-> FALSE, value |-> EmptyMap, post |-> o, alias |-> FALSE]
              ELSE SerializeFields(o, priv)
         ELSE [ok |-> FALSE, value |-> EmptyMap, post |-> o, alias |-> FALSE]

RECURSIVE Dumps(_, _), DumpsSeq(_, _)

\* json.dumps over the elements in order; the first failure aborts the call
DumpsSeq(vs, priv) ==
    IF vs = <<>>
    THEN [ok |-> TRUE, reps |-> <<>>, posts |-> <<>>]
    ELSE LET h == Dumps(Head(vs), priv)
         IN IF ~h.ok
            THEN [ok |-> FALSE, reps |-> <<>>, posts |-> <<h.post>> \o Tail(vs)]
            ELSE LET r == DumpsSeq(Tail(vs), priv)
                 IN [ok |-> r.ok, reps |-> <<h.rep>> \o r.reps,
                     posts |-> <<h.post>> \o r.posts]

DumpsMap(m, priv) ==
    LET ks == Keys(m)
        r == DumpsSeq([i \in 1..Len(ks) |-> m[ks[i]]], priv)
    IN [ok |-> r.ok,
        rep |-> IF r.ok THEN [key \in DOMAIN m |-> r.reps[Index(ks, key)]] ELSE EmptyMap,
        post |-> [key \in DOMAIN m |-> r.posts[Index(ks, key)]]]

\* json.dumps(obj, default=serialize_object) followed by json.loads
Dumps(v, priv) ==
    CASE v.k = "s" -> [ok |-> TRUE, rep |-> v, post |-> v]
      [] v.k = "l" ->
           LET r == DumpsSeq(v.es, priv)
           IN [ok |-> r.ok, rep |-> IF r.ok THEN Li(r.reps) ELSE NoValue,
               post |-> Li(r.posts)]
      [] v.k = "d" ->
           LET r == DumpsMap(v.m, priv)
           IN [ok |-> r.ok, rep |-> IF r.ok THEN Di(r.rep) ELSE NoValue,
               post |-> Di(r.post)]
      [] OTHER ->
           LET s == serialize_object(v, priv)
           IN IF ~s.ok
              THEN [ok |-> FALSE, rep |-> NoValue, post |-> s.post]
              ELSE LET r == DumpsMap(s.value, priv)
                   IN [ok |-> r.ok,
                       rep |-> IF r.ok THEN Di(r.rep) ELSE NoValue,
                       post |-> IF s.alias
                                THEN Ob(v.t, [key \in DOMAIN s.post.a |->
                                        IF key \in DOMAIN s.value \ {Tag}
                                        THEN r.post[key] ELSE s.post.a[key]])
                                ELSE s.post]

serialize(o, priv) == Dumps(o, priv)

-----------------------------------------------------------------------------
(* deserialize, deserialize_dict, deserialize_list *)

\* no duplicate check, as in Serializer.__init__
HasDecoderNever(type_name) == FALSE

HasDecoder(type_name) == type_name \in DOMAIN deserializers

\* lines 107-112: which field values are handed to deserialize
Recurses(value) == value.k = "l" \/ (value.k = "d" /\ Tag \in DOMAIN value.m)

RECURSIVE deserialize(_, _), deserialize_list(_, _), DecodeItems(_, _, _)

\* lines 102-112; m is the dict being read, ks the keys still to visit
DecodeItems(m, ks, priv) ==
    IF ks = <<>>
    THEN [ok |-> TRUE, vals |-> EmptyMap, post |-> m, ctors |-> <<>>]
    ELSE LET key == Head(ks)
             value == m[key]
         IN IF key = Tag \/ (~priv /\ StartsWithUnderscore(key))
            THEN DecodeItems(m, Tail(ks), priv)
            ELSE IF Recurses(value)
                 THEN LET h == deserialize(value, priv)
                      IN IF ~h.ok
                         THEN [ok |-> FALSE, vals |-> EmptyMap,
                               post |-> Put(m, key, h.post), ctors |-> h.ctors]
                         ELSE LET r == DecodeItems(Put(m, key, h.post), Tail(ks), priv)
                              IN [ok |-> r.ok, vals |-> Put(r.vals, key, h.val),
                                  post |-> r.post, ctors |-> h.ctors \o r.ctors]
                 ELSE LET r == DecodeItems(m, Tail(ks), priv)
                      IN [ok |-> r.ok, vals |-> Put(r.vals, key, value),
                          post |-> r.post, ctors |-> r.ctors]

\* lines 114-131: look the class up, split the fields by the constructor's
\* signature, call the constructor, set the remaining fields
Construct(class_name, deserialized_dict) ==
    LET cls == serializable_types[class_name].cls
        to_ctor == {key \in DOMAIN deserialized_dict : key \in CtorParams[cls]}
    IN IF CtorParams[cls] \subseteq to_ctor
       THEN [ok |-> TRUE, val |-> Ob(cls, deserialized_dict)]
       ELSE [ok |-> FALSE, val |-> NoValue]

deserialize_dict(o, priv) ==
    IF Tag \in DOMAIN o.m /\ HasDecoder(o.m[Tag].v)
    THEN LET type_name == o.m[Tag].v
             stripped == Restrict(o.m, DOMAIN o.m \ {Tag})
             d == ApplyDecoder(deserializers[type_name], stripped)
         IN IF d.ok
            THEN [ok |-> TRUE, val |-> d.val, post |-> o, ctors |-> <<>>]
            ELSE [ok |-> FALSE, val |-> NoValue, post |-> Di(stripped), ctors |-> <<>>]
    ELSE LET it == DecodeItems(o.m, Keys(o.m), priv)
         IN IF ~it.ok
            THEN [ok |-> FALSE, val |-> NoValue, post |-> Di(it.post), ctors |-> it.ctors]
            ELSE IF Tag \notin DOMAIN o.m
                 THEN [ok |-> FALSE, val |-> NoValue, post |-> Di(it.post),
                       ctors |-> it.ctors]
                 ELSE IF ~TypeRegistered(o.m[Tag].v)
                      THEN [ok |-> FALSE, val |-> NoValue, post |-> Di(it.post),
                            ctors |-> it.ctors]
                      ELSE LET c == Construct(o.m[Tag].v, it.vals)
                           IN [ok |-> c.ok, val |-> c.val, post |-> Di(it.post),
                               ctors |-> it.ctors \o <<o.m[Tag].v>>]

deserialize_list(lst, priv) ==
    IF lst = <<>>
    THEN [ok |-> TRUE, vals |-> <<>>, posts |-> <<>>, ctors |-> <<>>]
    ELSE LET h == deserialize(Head(lst), priv)
         IN IF ~h.ok
            THEN [ok |-> FALSE, vals |-> <<>>, posts |-> <<h.post>> \o Tail(lst),
                  ctors |-> h.ctors]
            ELSE LET r == deserialize_list(Tail(lst), priv)
                 IN [ok |-> r.ok, vals |-> <<h.val>> \o r.vals,
                     posts |-> <<h.post>> \o r.posts, ctors |-> h.ctors \o r.ctors]

deserialize(o, priv) ==
    CASE o.k = "l" ->
           LET r == deserialize_list(o.es, priv)
           IN [ok |-> r.ok, val |-> IF r.ok THEN Li(r.vals) ELSE NoValue,
               post |-> Li(r.posts), ctors |-> r.ctors]
      [] o.k = "d" -> deserialize_dict(o, priv)
      [] OTHER -> [ok |-> TRUE, val |-> o, post |-> o, ctors |-> <<>>]

-----------------------------------------------------------------------------
(* Inputs *)

Unserializable == Op("set", "s1")

Leaves == {Sc("1"), Op("datetime", "d1"), Unserializable, Ob("Blob", EmptyMap)}

Wrap(v) == {Li(<<v>>), Di("k" :> v), Ob("Blob", "x" :> v)}

RECURSIVE Values(_)
Values(d) == IF d <= 0 THEN Leaves
             ELSE Leaves \cup UNION {Wrap(v) : v \in Values(d - 1)}

SideMaps == {"_p" :> Unserializable, ("t" :> Sc("1")) @@ ("_p" :> Sc("1"))}

Tops(d) == {Ob("Point", "x" :> v) : v \in Values(d - 1)}
           \cup {Ob("Point", ("x" :> v) @@ side) : v \in Values(d - 2), side \in SideMaps}

InstSet == Values(MaxDepth) \cup Tops(MaxDepth)

\* representations received from the external decoder
RawNodes == {Di(Tag :> Sc("datetime")),
             Di((Tag :> Sc("Blob")) @@ ("datetime" :> Sc(DatetimeStr["d1"]))),
             Di((Tag :> Sc("Blob")) @@ ("_p" :> Li(<<Sc("1")>>)))}

RECURSIVE Nodes(_)
Nodes(d) == IF d = 0 THEN RawNodes
            ELSE RawNodes \cup {Li(<<n>>) : n \in Nodes(d - 1)}
                          \cup {Di((Tag :> Sc("Blob")) @@ ("x" :> n)) : n \in Nodes(d - 1)}

NodeSet == Nodes(MaxDepth - 1)

TransientChoices == {{}, {"t", "_p"}}

-----------------------------------------------------------------------------
(* State machine *)

Call(op, priv, ok, arg, result, post, ctors, src) ==
    [op |-> op, priv |-> priv, ok |-> ok, arg |-> arg, result |-> result,
     post |-> post, ctors |-> ctors, src |-> src]

\* module import: lines 23, 151, 185 and the two decorators at 211-218
Init ==
    /\ serializable_types = EmptyMap
    /\ serializers = ("datetime" :> "serialize_datetime")
    /\ deserializers = ("datetime" :> "deserialize_datetime")
    /\ \/ obj \in InstSet /\ rep = NoValue
       \/ obj = NoValue /\ rep \in NodeSet
    /\ call = Call("import", FALSE, TRUE, NoValue, NoValue, NoValue, <<>>, NoValue)

\* register_serializable_type (also run by Serializable.__init_subclass__)
RegisterType(cls, transient_attributes) ==
    /\ serializable_types' = Put(serializable_types, fullname(cls),
                                 [cls |-> cls, transient_attributes |-> transient_attributes])
    /\ call' = Call("register_type", FALSE, TRUE, Sc(fullname(cls)), NoValue, NoValue,
                    <<>>, NoValue)
    /\ UNCHANGED <<serializers, deserializers, obj, rep>>

\* Serializer.__init__
RegisterEncoder(serialized_type, function) ==
    /\ serializers' = Put(serializers, serialized_type, function)
    /\ call' = Call("register_encoder", FALSE, TRUE, Sc(Name(serialized_type)),
                    Sc(function), NoValue, <<>>, NoValue)
    /\ UNCHANGED <<serializable_types, deserializers, obj, rep>>

\* Deserializer.__init__
RegisterDecoder(deserialized_type_name, function) ==
    /\ IF HasDecoder(Name(deserialized_type_name))
       THEN /\ UNCHANGED deserializers
            /\ call' = Call("register_decoder", FALSE, FALSE,
                            Sc(Name(deserialized_type_name)), Sc(function), NoValue,
                            <<>>, NoValue)
       ELSE /\ deserializers' = Put(deserializers, Name(deserialized_type_name), function)
            /\ call' = Call("register_decoder", FALSE, TRUE,
                            Sc(Name(deserialized_type_name)), Sc(function), NoValue,
                            <<>>, NoValue)
    /\ UNCHANGED <<serializable_types, serializers, obj, rep>>

\* serialize(obj, serialize_private_attributes) on the live object
Serialize(priv) ==
    /\ obj # NoValue
    /\ LET r == serialize(obj, priv)
       IN /\ obj' = r.post
          /\ rep' = IF r.ok THEN r.rep ELSE rep
          /\ call' = Call("serialize", priv, r.ok, obj, r.rep, r.post, <<>>, NoValue)
    /\ UNCHANGED <<serializable_types, serializers, deserializers>>

\* deserialize(rep, deserialize_private_attributes) on the held representation
Deserialize(priv) ==
    /\ rep # NoValue
    /\ LET d == deserialize(rep, priv)
       IN /\ rep' = d.post
          /\ call' = Call("deserialize", priv, d.ok, rep, d.val, d.post, d.ctors,
                          IF call.op = "serialize" /\ call.ok THEN call.arg ELSE NoValue)
    /\ UNCHANGED <<serializable_types, serializers, deserializers, obj>>

Next ==
    \/ \E tr \in TransientChoices : RegisterType("Point", tr)
    \/ RegisterType("Blob", {})
    \/ \E fn \in EncoderFns : RegisterEncoder("Blob", fn)
    \/ \E typ \in {"Blob", "datetime"}, fn \in DecoderFns : RegisterDecoder(typ, fn)
    \/ \E priv \in BOOLEAN : Serialize(priv)
    \/ \E priv \in BOOLEAN : Deserialize(priv)

Spec == Init /\ [][Next]_vars

TypeOK == call.op \in {"import", "register_type", "register_encoder",
                       "register_decoder", "serialize", "deserialize"}
-----------------------------------------------------------------------------
(* Properties *)

SerializedRegistered ==
    /\ call.op = "serialize" /\ call.ok
    /\ call.arg.k = "o" /\ fullname(call.arg.t) \in DOMAIN serializable_types

\* C1: after serialize(i) returns, an instance i of a registered type has
\* the same attributes with the same values as before the call.
C1_NoMutation == SerializedRegistered => call.post = call.arg

RECURSIVE Allowed(_)
\* an acyclic value built from scalars, sequences, untagged mappings and
\* instances of registered types whose fields are all non-private and
\* non-excluded
Allowed(v) ==
    CASE v.k = "s" -> TRUE
      [] v.k = "l" -> \A i \in 1..Len(v.es) : Allowed(v.es[i])
      [] v.k = "d" -> Tag \notin DOMAIN v.m /\ \A key \in DOMAIN v.m : Allowed(v.m[key])
      [] v.k = "o" ->
           /\ v.t \notin DOMAIN serializers
           /\ fullname(v.t) \in DOMAIN serializable_types
           /\ CtorParams[v.t] \subseteq DOMAIN v.a
           /\ \A key \in DOMAIN v.a :
                /\ ~StartsWithUnderscore(key)
                /\ key \notin serializable_types[fullname(v.t)].transient_attributes
                /\ Allowed(v.a[key])
      [] OTHER -> FALSE

\* C2: deserialize(serialize(i)) returns an instance of the type of i whose
\* fields equal the fields of i, for every allowed instance i of a
\* registered type.
C2_RoundTrip ==
    (call.op = "deserialize" /\ call.src.k = "o" /\ Allowed(call.src))
        => (call.ok /\ call.result = call.src)

Untagged(n) == n.k = "d" /\ Tag \notin DOMAIN n.m

\* C3: deserialize of a mapping without the discriminator key, at the top
\* level or as an element of a sequence, does not fail, and at the top level
\* returns a mapping with the same keys.
C3_UntaggedMapping ==
    /\ (call.op = "deserialize" /\ Untagged(call.arg))
          => (call.ok /\ call.result.k = "d"
                      /\ DOMAIN call.result.m = DOMAIN call.arg.m)
    /\ (call.op = "deserialize" /\ call.arg.k = "l"
          /\ \A i \in 1..Len(call.arg.es) :
               call.arg.es[i].k = "s" \/ Untagged(call.arg.es[i]))
          => call.ok

\* C4: serialize(i, include_private=false) has no key for a private-named
\* field of i; serialize(i, include_private=true) has a key for every
\* private-named field of i that is not excluded.
C4_PrivatePolicy ==
    (SerializedRegistered /\ call.arg.t \notin DOMAIN serializers) =>
        \A key \in DOMAIN call.arg.a :
            StartsWithUnderscore(key) =>
                IF call.priv
                THEN key \in serializable_types[fullname(call.arg.t)].transient_attributes
                     \/ key \in DOMAIN call.result.m
                ELSE key \notin DOMAIN call.result.m

\* C5: no excluded (transient) field name of the type of i is a key of
\* serialize(i), for both values of include_private.
C5_TransientPolicy ==
    SerializedRegistered =>
        serializable_types[fullname(call.arg.t)].transient_attributes
            \cap DOMAIN call.result.m = {}

C5_Witness ==
    /\ SerializedRegistered /\ call.arg.t \notin DOMAIN serializers /\ call.priv
    /\ {"t", "_p"} \subseteq DOMAIN call.arg.a
    /\ {"t", "_p"} \subseteq serializable_types[fullname(call.arg.t)].transient_attributes

\* C6: a type with both an encoder and a descriptor is serialized by the
\* encoder (the encoder's mapping plus the discriminator); a discriminator
\* with both a decoder and a descriptor is deserialized by the decoder and no
\* constructor is invoked.
C6_CodecPrecedence ==
    /\ (call.op = "serialize" /\ call.arg.k = "o" /\ call.arg.t \in DOMAIN serializers
          /\ fullname(call.arg.t) \in DOMAIN serializable_types)
          => /\ call.ok
             /\ call.result = Di(Put(ApplyEncoder(serializers[call.arg.t], call.arg),
                                     Tag, Sc(Name(call.arg.t))))
    /\ (call.op = "deserialize" /\ call.arg.k = "d" /\ Tag \in DOMAIN call.arg.m
          /\ call.arg.m[Tag].v \in DOMAIN deserializers /\ call.arg.m[Tag].v \in DOMAIN serializable_types)
          => LET d == ApplyDecoder(deserializers[call.arg.m[Tag].v],
                                   Restrict(call.arg.m, DOMAIN call.arg.m \ {Tag}))
             IN call.ctors = <<>> /\ call.ok = d.ok /\ call.result = d.val

C6_Witness ==
    /\ call.op = "deserialize" /\ call.ok
    /\ call.src.k = "o" /\ call.src.t \in DOMAIN serializers /\ fullname(call.src.t) \in DOMAIN serializable_types
    /\ call.arg.k = "d" /\ Tag \in DOMAIN call.arg.m
    /\ call.arg.m[Tag].v \in DOMAIN deserializers /\ call.arg.m[Tag].v \in DOMAIN serializable_types

Unknown(v) ==
    /\ v.k \in {"o", "n"}
    /\ v.t \notin DOMAIN serializers
    /\ fullname(v.t) \notin DOMAIN serializable_types

RECURSIVE ContainsUnknown(_)
ContainsUnknown(v) ==
    CASE v.k = "l" -> \E i \in 1..Len(v.es) : ContainsUnknown(v.es[i])
      [] v.k = "d" -> \E key \in DOMAIN v.m : ContainsUnknown(v.m[key])
      [] v.k = "o" -> Unknown(v) \/ \E key \in DOMAIN v.a : ContainsUnknown(v.a[key])
      [] OTHER -> Unknown(v)

RECURSIVE VisitsUnknown(_, _)
\* an unknown object at the top level, in a sequence, in a mapping, or in a
\* field that is neither skipped nor below an object handled by an encoder
VisitsUnknown(v, priv) ==
    CASE v.k = "l" -> \E i \in 1..Len(v.es) : VisitsUnknown(v.es[i], priv)
      [] v.k = "d" -> \E key \in DOMAIN v.m : VisitsUnknown(v.m[key], priv)
      [] v.k = "o" ->
           \/ Unknown(v)
           \/ /\ v.t \notin DOMAIN serializers
              /\ \E key \in DOMAIN v.a :
                   /\ key # Tag
                   /\ priv \/ ~StartsWithUnderscore(key)
                   /\ key \notin serializable_types[fullname(v.t)].transient_attributes
                   /\ VisitsUnknown(v.a[key], priv)
      [] OTHER -> Unknown(v)

\* C8 (as stated): serialize of a value that contains, at any depth, an
\* object whose type has neither encoder nor descriptor fails and returns no
\* representation.
C8_UnknownAnywhere ==
    (call.op = "serialize" /\ ContainsUnknown(call.arg))
        => (~call.ok /\ call.result = NoValue)

\* C8 (amended): serialize fails and returns no representation when such an
\* object is at a position the encoding visits: the top level, a sequence
\* element, a mapping value, or a field that is not skipped (not private-named
\* unless include_private, not transient, not named as the discriminator) of
\* a visited object that no encoder handles.
C8_UnknownVisited ==
    (call.op = "serialize" /\ VisitsUnknown(call.arg, call.priv))
        => (~call.ok /\ call.result = NoValue)

C8_Witness ==
    /\ call.op = "serialize" /\ ~call.ok
    /\ call.arg.k = "o" /\ ~Unknown(call.arg)
    /\ VisitsUnknown(call.arg, call.priv)

RECURSIVE HoldsTagged(_)
HoldsTagged(v) ==
    CASE v.k = "l" -> \E i \in 1..Len(v.es) : HoldsTagged(v.es[i])
      [] v.k = "d" -> Tag \in DOMAIN v.m \/ \E key \in DOMAIN v.m : HoldsTagged(v.m[key])
      [] v.k = "o" -> \E key \in DOMAIN v.a : HoldsTagged(v.a[key])
      [] OTHER -> FALSE

\* C9: an instance reconstructed through a type descriptor never holds,
\* at any depth, a mapping that still carries the discriminator key.
C9_FieldsDecoded ==
    (call.op = "deserialize" /\ call.ok /\ call.arg.k = "d"
       /\ Tag \in DOMAIN call.arg.m /\ call.arg.m[Tag].v \notin DOMAIN deserializers)
        => ~HoldsTagged(call.result)

\* C10: deserialize leaves the representation it is given unchanged,
\* whether it returns or fails.
C10_NodeUnchanged == call.op = "deserialize" => call.post = call.arg
====
